---- MODULE Spec2Model ----
(***************************************************************************)
(* The training orchestration state machine of the two single-device       *)
(* recipes                                                                 *)
(*   recipes/knowledge_distillation_single_device.py  (recipe "kd")        *)
(*   recipes/lora_dpo_single_device.py                (recipe "dpo")       *)
(* One behaviour is one process running recipe_main (__init__, setup,      *)
(* train), possibly followed by a new process resuming from a checkpoint   *)
(* that the previous process handed to the checkpoint sink.                *)
(***************************************************************************)
EXTENDS Integers, Sequences, FiniteSets, TLC

\* ------------------------------------------------------------------ bounds
MaxLen == 4
MaxAccum == 2
MaxEpochs == 3
MaxCap == 2
MaxSave == 2
MaxLogEvery == 2
MaxTok == 2
MaxLoss == 1
RatioDen == 2
MaxPairs == 2
MaxReward == 3
MaxBatches == 6

\* Python's None for the optional integer config values
None == -1

Recipes == {"kd", "dpo"}
Seeds == {11, 22}
OptInt(n) == {None} \cup (1..n)

\* -------------------------------------------------- pure parts of the code

\* len(self._dataloader) // self._gradient_accumulation_steps
StepsPerEpoch(len, accum) == len \div accum

\* max_steps_per_epoch is not None and max_steps_per_epoch < steps_per_epoch
CapApplies(max_steps, spe) == max_steps # None /\ max_steps < spe

\* the window test on idx instead of idx + 1
ShouldStep_OnIdx(i, accum) == i % accum = 0

\* (idx + 1) % gradient_accumulation_steps == 0
ShouldStep(i, accum) == (i + 1) % accum = 0

\* the trigger without the final-epoch exception
ShouldCheckpoint_EveryCadencePoint(g, every, e, total) == g % every = 0

\* the trigger with the final epoch off by one
ShouldCheckpoint_EpochOffByOne(g, every, e, total) ==
    g % every = 0 /\ e # total

\* the trigger with the final-epoch exception inverted
ShouldCheckpoint_FinalEpochOnly(g, every, e, total) ==
    g % every = 0 /\ e = total - 1

\* global_step % save_every_n_steps == 0 and curr_epoch != total_epochs - 1
ShouldCheckpoint(g, every, e, total) == g % every = 0 /\ e # total - 1

\* the early exit of an epoch: kd tests it at the end of the loop body,
\* dpo at the top of the loop body, before the batch is used
\* the early exit of kd tested one microbatch late
ShouldBreakKD_Late(i, accum, max_steps) == i \div accum = max_steps

ShouldBreakKD(i, accum, max_steps) == (i + 1) \div accum = max_steps

ShouldBreakDPO(i, accum, max_steps) ==
    max_steps # None /\ i \div accum = max_steps

\* kd save_checkpoint: epochs_run of the TrainingProgress is the epoch
\* argument, plus one when global_step closes an epoch
ProgressEpochKD(epoch, g, spe) == IF g % spe = 0 THEN epoch + 1 ELSE epoch

\* dpo save_checkpoint: epochs_run of the TrainingProgress is self.epochs_run
ProgressEpochDPO(erun) == erun

\* epochs_run of the TrainingProgress handed to the sink
ProgressEpoch(recipe, epoch, erun, g, spe) ==
    IF recipe = "kd" THEN ProgressEpochKD(epoch, g, spe)
    ELSE ProgressEpochDPO(erun)

\* dir_prefix handed to the sink: kd passes checkpoint_dir_prefix, dpo
\* leaves the sink's default
DirPrefix(recipe, prefix) == IF recipe = "kd" THEN prefix ELSE "default"

\* the step count save_checkpoint puts into the TrainingProgress: neither
\* recipe passes one
ProgressStepsRun(g) == None

\* the step count the sink stores with the TrainingProgress
SinkStepsRun(g) == g

\* StatefulDataLoader.state_dict(): the cursor the next iterator resumes at
\* (batches already yielded; a finished iterator resumes as a fresh one)
DataloaderStateDict(yielded, finished) == IF finished THEN 0 ELSE yielded

\* the recipe-state entries of a checkpoint dict
EPOCHS_KEY == "epochs_run"
STEPS_KEY == "steps_run"
SEED_KEY == "seed"
MAX_STEPS_KEY == "max_steps_per_epoch"
TOTAL_EPOCHS_KEY == "total_epochs"
ADAPTER_KEY == "adapter"
RecipeKeys == {EPOCHS_KEY, STEPS_KEY, SEED_KEY, MAX_STEPS_KEY,
               TOTAL_EPOCHS_KEY}

\* the checkpoint keys _update_recipe_state reads, in the order it reads them
ReadOrderKD == <<EPOCHS_KEY, STEPS_KEY, SEED_KEY, MAX_STEPS_KEY,
                 TOTAL_EPOCHS_KEY>>
ReadOrderDPO == <<EPOCHS_KEY, SEED_KEY, MAX_STEPS_KEY, TOTAL_EPOCHS_KEY>>

\* the reads of _update_recipe_state that succeed before the first KeyError
ReadsDone(order, ck) ==
    IF \A i \in DOMAIN order : order[i] \in ck.keys THEN Len(order)
    ELSE (CHOOSE i \in DOMAIN order :
              /\ order[i] \notin ck.keys
              /\ \A j \in 1..(i - 1) : order[j] \in ck.keys) - 1

\* kd _update_recipe_state: the recipe state after reading the checkpoint;
\* the assignments made before a KeyError stay
UpdateRecipeStateKD(st, ck) ==
    LET n == ReadsDone(ReadOrderKD, ck)
    IN  [epochs_run          |-> IF n >= 1 THEN ck.epochs_run
                                 ELSE st.epochs_run,
         global_step         |-> IF n >= 2 THEN ck.steps_run
                                 ELSE st.global_step,
         seed                |-> IF n >= 3 /\ st.seed # ck.seed THEN ck.seed
                                 ELSE st.seed,
         max_steps_per_epoch |-> IF n >= 4 /\ st.max_steps_per_epoch # ck.max_steps
                                 THEN ck.max_steps ELSE st.max_steps_per_epoch,
         total_epochs        |-> st.total_epochs,
         raised              |-> n < Len(ReadOrderKD)]

\* dpo _update_recipe_state: as kd, but global_step is not read
UpdateRecipeStateDPO(st, ck) ==
    LET n == ReadsDone(ReadOrderDPO, ck)
    IN  [epochs_run          |-> IF n >= 1 THEN ck.epochs_run
                                 ELSE st.epochs_run,
         global_step         |-> st.global_step,
         seed                |-> IF n >= 2 /\ st.seed # ck.seed THEN ck.seed
                                 ELSE st.seed,
         max_steps_per_epoch |-> IF n >= 3 /\ st.max_steps_per_epoch # ck.max_steps
                                 THEN ck.max_steps ELSE st.max_steps_per_epoch,
         total_epochs        |-> st.total_epochs,
         raised              |-> n < Len(ReadOrderDPO)]

\* _update_recipe_state that lets the config win for the seed as well
UpdateRecipeState_ConfigSeed(recipe, st, ck) ==
    [(IF recipe = "kd" THEN UpdateRecipeStateKD(st, ck)
      ELSE UpdateRecipeStateDPO(st, ck)) EXCEPT !.seed = st.seed]

\* _update_recipe_state of the running recipe
UpdateRecipeState(recipe, st, ck) ==
    IF recipe = "kd" THEN UpdateRecipeStateKD(st, ck)
    ELSE UpdateRecipeStateDPO(st, ck)

\* the position of a key in the reads of _update_recipe_state
ReadIndex(order, key) == CHOOSE i \in DOMAIN order : order[i] = key

\* the fields _update_recipe_state warns about: a comparison is made when
\* the reads before it succeeded, and it warns when the recipe's value,
\* still the config's, differs from the checkpoint's
Warnings(recipe, st, ck) ==
    LET order == IF recipe = "kd" THEN ReadOrderKD ELSE ReadOrderDPO
        n == ReadsDone(order, ck)
    IN  {f \in {"seed"} :
            n >= ReadIndex(order, SEED_KEY) /\ st.seed # ck.seed}
        \cup {f \in {"max_steps_per_epoch"} :
                n >= ReadIndex(order, MAX_STEPS_KEY)
                    /\ st.max_steps_per_epoch # ck.max_steps}
        \cup {f \in {"total_epochs"} :
                n >= ReadIndex(order, TOTAL_EPOCHS_KEY)
                    /\ st.total_epochs # ck.total_epochs}

\* the checkpoint a fresh run loads: base weights only, no recipe state
BaseCheckpoint ==
    [epochs_run |-> 0, steps_run |-> 0, seed |-> 0, max_steps |-> None,
     total_epochs |-> 0, dl |-> None, keys |-> {}, adapter |-> FALSE]

\* ---------------------------------------------------- losses and metrics

\* float values are exact fractions <<numerator, denominator>>
Frac(n, d) == <<n, d>>
FAdd(a, b) == <<a[1] * b[2] + b[1] * a[2], a[2] * b[2]>>
FSub(a, b) == <<a[1] * b[2] - b[1] * a[2], a[2] * b[2]>>
FMul(a, b) == <<a[1] * b[1], a[2] * b[2]>>
FEq(a, b) == a[1] * b[2] = b[1] * a[2]

RECURSIVE Sum(_)
Sum(q) == IF q = <<>> THEN 0 ELSE q[1] + Sum(Tail(q))

\* tensor.mean() of a vector
Mean(q) == Frac(Sum(q), Len(q))

\* cfg.kd_ratio, a multiple of 1 / RatioDen
KdRatio(k) == Frac(k, RatioDen)

\* the combination with the two weights exchanged
Compose_Swapped(r, class_loss, kd_loss) ==
    FAdd(FMul(r, class_loss), FMul(FSub(Frac(1, 1), r), kd_loss))

\* (1 - self._kd_ratio) * class_loss + self._kd_ratio * kd_loss
Compose(r, class_loss, kd_loss) ==
    FAdd(FMul(FSub(Frac(1, 1), r), class_loss), FMul(r, kd_loss))

\* what a kd batch yields: the number of labels that are not ignore_index
\* and the two losses _loss_step returns for it
KDBatches ==
    [tokens : 1..MaxTok, class_loss : 0..MaxLoss, kd_loss : 0..MaxLoss]

\* what a dpo batch yields: k chosen followed by k rejected sequences
\* (shape0 = 2k sequences, numel input ids), the rewards the loss function
\* returns for the k pairs, and the mean of the loss
SeqsOf(k, vals) == [1..k -> vals]
PairBatches(k) ==
    [shape0 : {2 * k}, numel : {2 * k},
     chosen_rewards : SeqsOf(k, 0..MaxReward),
     rejected_rewards : SeqsOf(k, 0..MaxReward), loss : {1}]
DPOBatches == UNION {PairBatches(k) : k \in 1..MaxPairs}

\* batches of one preference pair that differ in sequence length (numel is
\* 2 sequences of 1..MaxTok tokens), in the mean of the loss and in whether
\* the chosen reward exceeds the rejected one
SizedPairBatches ==
    [shape0 : {2}, numel : {2 * t : t \in 1..MaxTok},
     chosen_rewards : {<<0>>, <<2>>}, rejected_rewards : {<<1>>},
     loss : 0..MaxLoss]

\* the running statistics of train() at their initial value
ZeroStats ==
    [running_class_loss |-> 0, running_kd_loss |-> 0,
     running_loss |-> Frac(0, 1), num_tokens |-> 0]

\* the kd running sums without the token weights
AccumulateKD_Unweighted(st, b) ==
    [st EXCEPT !.num_tokens = @ + b.tokens,
               !.running_class_loss = @ + b.class_loss,
               !.running_kd_loss = @ + b.kd_loss]

\* kd: num_tokens and the running sums after one more microbatch
AccumulateKD(st, b) ==
    [st EXCEPT !.num_tokens = @ + b.tokens,
               !.running_class_loss = @ + b.class_loss * b.tokens,
               !.running_kd_loss = @ + b.kd_loss * b.tokens]

\* dpo with the loss of a microbatch weighted by its token count
AccumulateDPO_TokenWeighted(st, b, accum) ==
    [st EXCEPT !.num_tokens = @ + b.numel,
               !.running_loss = FAdd(@, Frac(b.loss * b.numel, accum))]

\* dpo: num_tokens and running_loss after one more microbatch
AccumulateDPO(st, b, accum) ==
    [st EXCEPT !.num_tokens = @ + b.numel,
               !.running_loss = FAdd(@, Frac(b.loss, accum))]

\* the reset at the end of the step branch without num_tokens
ResetStats_KeepTokens(recipe, st) ==
    IF recipe = "kd"
    THEN [st EXCEPT !.running_class_loss = 0, !.running_kd_loss = 0]
    ELSE [st EXCEPT !.running_loss = Frac(0, 1)]

\* the reset at the end of the step branch: kd resets both running sums
\* and num_tokens, dpo resets running_loss and num_tokens
ResetStats(recipe, st) ==
    IF recipe = "kd"
    THEN [st EXCEPT !.running_class_loss = 0, !.running_kd_loss = 0,
                    !.num_tokens = 0]
    ELSE [st EXCEPT !.running_loss = Frac(0, 1), !.num_tokens = 0]

\* the loss backward() is called on
BackwardLoss(recipe, kd_ratio, accum, b) ==
    IF recipe = "kd"
    THEN Compose(KdRatio(kd_ratio), Frac(b.class_loss, 1),
                 Frac(b.kd_loss, 1))
    ELSE Frac(b.loss, accum)

\* the loop body with the policy forward pass inside the
\* no_grad / disable_adapter block as well
LoopBody_PolicyInBlock(recipe) ==
    IF recipe = "dpo"
    THEN <<"enter no_grad", "enter disable_adapter", "policy forward",
           "reference forward", "exit disable_adapter", "exit no_grad",
           "loss_fn", "backward">>
    ELSE <<"student forward", "enter no_grad", "teacher forward",
           "exit no_grad", "loss_fn", "backward">>

\* the calls and context managers of the loop body of train() up to
\* backward(), in program order: dpo runs the same model twice, kd runs
\* the student and, under no_grad, the teacher
LoopBody(recipe) ==
    IF recipe = "dpo"
    THEN <<"policy forward", "enter no_grad", "enter disable_adapter",
           "reference forward", "exit disable_adapter", "exit no_grad",
           "loss_fn", "backward">>
    ELSE <<"student forward", "enter no_grad", "teacher forward",
           "exit no_grad", "loss_fn", "backward">>

\* the context of a call: adapters enabled, gradient tracking on
OpenContext == [adapters |-> TRUE, grad |-> TRUE]

\* the context after a statement of the loop body
ContextAfter(ctx, op) ==
    IF op = "enter no_grad" THEN [ctx EXCEPT !.grad = FALSE]
    ELSE IF op = "exit no_grad" THEN [ctx EXCEPT !.grad = TRUE]
    ELSE IF op = "enter disable_adapter" THEN [ctx EXCEPT !.adapters = FALSE]
    ELSE IF op = "exit disable_adapter" THEN [ctx EXCEPT !.adapters = TRUE]
    ELSE ctx

\* the calls a program makes on a batch, each with the context it runs in
RECURSIVE Execute(_, _, _)
Execute(prog, ctx, batch) ==
    IF prog = <<>> THEN <<>>
    ELSE IF ContextAfter(ctx, prog[1]) # ctx
              \/ prog[1] \in {"enter no_grad", "exit no_grad",
                              "enter disable_adapter",
                              "exit disable_adapter"}
         THEN Execute(Tail(prog), ContextAfter(ctx, prog[1]), batch)
         ELSE <<[call |-> prog[1], adapters |-> ctx.adapters,
                 grad |-> ctx.grad, input |-> batch]>>
              \o Execute(Tail(prog), ctx, batch)

\* the context the loop body leaves behind
RECURSIVE ContextAtEnd(_, _)
ContextAtEnd(prog, ctx) ==
    IF prog = <<>> THEN ctx
    ELSE ContextAtEnd(Tail(prog), ContextAfter(ctx, prog[1]))

\* get_batch_log_probs: one log-prob per sequence of the concatenated
\* batch, here the position of the sequence in the batch
AllLogProbs(shape0) == [i \in 1..shape0 |-> i]

\* concatenated_forward with the halves exchanged
ConcatenatedForward_Swapped(all_log_probs) ==
    LET len_chosen == Len(all_log_probs) \div 2
    IN  [chosen_logps   |-> SubSeq(all_log_probs, len_chosen + 1,
                                   Len(all_log_probs)),
         rejected_logps |-> SubSeq(all_log_probs, 1, len_chosen)]

\* concatenated_forward: all_log_probs[:len_chosen], [len_chosen:]
ConcatenatedForward(all_log_probs) ==
    LET len_chosen == Len(all_log_probs) \div 2
    IN  [chosen_logps   |-> SubSeq(all_log_probs, 1, len_chosen),
         rejected_logps |-> SubSeq(all_log_probs, len_chosen + 1,
                                   Len(all_log_probs))]

\* (chosen_rewards > rejected_rewards).float()
RewardAccuracies(chosen_rewards, rejected_rewards) ==
    [i \in DOMAIN chosen_rewards |->
        IF chosen_rewards[i] > rejected_rewards[i] THEN 1 ELSE 0]

\* kd: the values computed for logging at an optimizer step
ToLogKD(st, kd_ratio) ==
    LET class_loss_to_log == Frac(st.running_class_loss, st.num_tokens)
        kd_loss_to_log == Frac(st.running_kd_loss, st.num_tokens)
    IN  [class_loss |-> class_loss_to_log,
         kd_loss    |-> kd_loss_to_log,
         loss       |-> Compose(KdRatio(kd_ratio), class_loss_to_log,
                                kd_loss_to_log)]

\* dpo logging with the rewards of the two groups exchanged
ToLogDPO_RewardsSwapped(st, b) ==
    LET policy == ConcatenatedForward(AllLogProbs(b.shape0))
    IN  [loss             |-> st.running_loss,
         chosen_logps     |-> policy.chosen_logps,
         rejected_logps   |-> policy.rejected_logps,
         chosen_rewards   |-> b.rejected_rewards,
         rejected_rewards |-> b.chosen_rewards,
         accuracies       |-> Mean(RewardAccuracies(b.rejected_rewards,
                                                    b.chosen_rewards))]

\* dpo: the values computed for logging at an optimizer step; rewards and
\* log-probs are those of the last microbatch
ToLogDPO(st, b) ==
    LET policy == ConcatenatedForward(AllLogProbs(b.shape0))
    IN  [loss             |-> st.running_loss,
         chosen_logps     |-> policy.chosen_logps,
         rejected_logps   |-> policy.rejected_logps,
         chosen_rewards   |-> b.chosen_rewards,
         rejected_rewards |-> b.rejected_rewards,
         accuracies       |-> Mean(RewardAccuracies(b.chosen_rewards,
                                                    b.rejected_rewards))]

RECURSIVE SumFrac(_)
SumFrac(q) == IF q = <<>> THEN Frac(0, 1) ELSE FAdd(q[1], SumFrac(Tail(q)))

\* the loss whose gradient optimizer.step applies: backward() adds the
\* gradient of every loss it is called on, and kd scales the sum with
\* scale_grads(model, 1 / num_tokens)
AppliedLoss(recipe, fd, st) ==
    LET accumulated == SumFrac([i \in DOMAIN fd |-> fd[i].loss])
    IN  IF recipe = "kd" THEN FMul(accumulated, Frac(1, st.num_tokens))
        ELSE accumulated

\* the test of the step before the increment of global_step
ShouldLog_PreIncrement(g, log_every) == (g - 1) % log_every = 0

\* global_step % self._log_every_n_steps == 0
ShouldLog(g, log_every) == g % log_every = 0

\* the calls of one optimizer step on the gradients, with zero_grad before
\* optimizer.step
UpdateWeights_ZeroFirst(recipe, clip, sched) ==
    (IF recipe = "kd" THEN <<"scale_grads">> ELSE <<>>)
        \o (IF recipe = "kd" /\ clip THEN <<"clip_grad_norm_">> ELSE <<>>)
        \o <<"zero_grad", "optimizer.step">>
        \o (IF recipe = "kd" \/ sched THEN <<"lr_scheduler.step">> ELSE <<>>)
        \o <<"global_step += 1">>

\* the calls of one optimizer step up to the increment of global_step, in
\* the order the step branch of train() makes them
UpdateWeights(recipe, clip, sched) ==
    (IF recipe = "kd" THEN <<"scale_grads">> ELSE <<>>)
        \o (IF recipe = "kd" /\ clip THEN <<"clip_grad_norm_">> ELSE <<>>)
        \o <<"optimizer.step", "zero_grad">>
        \o (IF recipe = "kd" \/ sched THEN <<"lr_scheduler.step">> ELSE <<>>)
        \o <<"global_step += 1">>

\* the rest of the step branch: log_dict, the checkpoint test (which
\* raises on a zero cadence), save_checkpoint, the reset of the running
\* statistics
AfterUpdate(log, zero, ck) ==
    (IF log THEN <<"log_dict">> ELSE <<>>)
        \o <<"checkpoint test">>
        \o (IF zero THEN <<>>
            ELSE (IF ck THEN <<"save_checkpoint">> ELSE <<>>) \o <<"reset">>)

\* the batches of a run in which only the schedule is of interest
DefaultData(recipe) ==
    IF recipe = "kd" THEN {[tokens |-> 1, class_loss |-> 1, kd_loss |-> 0]}
    ELSE {[shape0 |-> 2, numel |-> 2, chosen_rewards |-> <<1>>,
           rejected_rewards |-> <<0>>, loss |-> 1]}

\* the batches enumerate(self._dataloader) can yield
Batches(recipe, kind) ==
    IF kind = "fixed" THEN DefaultData(recipe)
    ELSE IF recipe = "kd" THEN KDBatches
    ELSE IF kind = "sized" THEN SizedPairBatches
    ELSE DPOBatches

\* ------------------------------------------------------------------- state
VARIABLES
    cfg,                  \* the config of the running process
    data,                 \* which batches the data source can yield
    loaded,               \* what load_base_checkpoint returned
    pc, err, errAt,       \* position in recipe_main, and the exception raised
    seed, epochs_run, total_epochs, max_steps_per_epoch, global_step,
    steps_per_epoch, save_every_n_steps, checkpoint_dir_prefix,
    curr_epoch, idx,      \* loop variables of train(); None while unbound
    dlNext,               \* cursor loaded into the dataloader (None: none)
    dlYielded, dlFinished,\* the dataloader's current iterator
    samplerEpoch,         \* the epoch given to sampler.set_epoch
    window,               \* microbatches accumulated since the last step
    optSteps, lrSteps,    \* calls of optimizer.step and lr_scheduler.step
    saved,                \* calls of the checkpoint sink, in order
    steps,                \* optimizer steps taken by this process, in order
    base,                 \* optimizer steps contained in the loaded state
    drained,              \* setup drained the dataloader
    epochsDone, stepsInEpoch, \* epochs and in-epoch steps truly completed
    runs, sameCfg, refSteps, refSaved, resumedFrom,
    stats,                \* running sums and num_tokens of train()
    fed,                  \* the batches behind stats, with their backward loss
    to_log,               \* the values the current iteration of the
                          \* microbatch loop computed for logging
    metrics,              \* the steps of the log_dict calls, in order
    warnings,             \* the fields setup() warned about
    num_training_steps    \* what setup() handed to _setup_lr_scheduler

recipeVars == <<seed, epochs_run, total_epochs, max_steps_per_epoch,
                global_step, steps_per_epoch, save_every_n_steps,
                checkpoint_dir_prefix>>
loopVars == <<curr_epoch, idx, samplerEpoch, window, optSteps, lrSteps>>
dlVars == <<dlNext, dlYielded, dlFinished>>
histVars == <<runs, sameCfg, refSteps, refSaved, resumedFrom>>
truthVars == <<epochsDone, stepsInEpoch>>
statVars == <<stats, fed, to_log, metrics>>

vars == <<cfg, data, loaded, pc, err, errAt, recipeVars, loopVars, dlVars,
          saved, steps, base, drained, truthVars, histVars, statVars,
          warnings, num_training_steps>>

\* cfg.dtype after get_dtype: fp32 and bf16 are treated alike
Dtypes == {"bf16", "fp16"}

\* the classes of the task loss cfg.loss names
LossKinds == {"CEWithChunkedOutputLoss", "LinearCrossEntropyLoss",
              "CrossEntropyLoss", "DPOLoss"}

\* the types of cfg.device
Devices == {"cuda", "xpu", "cpu"}

Configs ==
    [recipe : Recipes, len : 1..MaxLen, accum : 1..MaxAccum,
     epochs : 1..MaxEpochs, max_steps : OptInt(MaxCap),
     save_every : OptInt(MaxSave), seed : Seeds, lr_scheduler : BOOLEAN,
     resume : BOOLEAN, dtype : Dtypes, loss : LossKinds,
     chunks_match : BOOLEAN, kd_ratio : 0..RatioDen,
     log_every : 1..MaxLogEvery, clip_grad_norm : BOOLEAN,
     device : Devices, enable_activation_offloading : BOOLEAN,
     enable_activation_checkpointing : BOOLEAN]

\* the configs of a first process: no resume, the seed of the config file,
\* clip_grad_norm left at its default None, a CUDA device, activation
\* offloading and checkpointing left at their default False
FreshConfigs(recipes, accums, ratios, logs) ==
    [recipe : recipes, len : 1..MaxLen, accum : accums,
     epochs : 1..MaxEpochs, max_steps : OptInt(MaxCap),
     save_every : OptInt(MaxSave), seed : {11}, lr_scheduler : BOOLEAN,
     resume : {FALSE}, dtype : Dtypes, loss : LossKinds,
     chunks_match : BOOLEAN, kd_ratio : ratios, log_every : logs,
     clip_grad_norm : {FALSE}, device : {"cuda"},
     enable_activation_offloading : {FALSE},
     enable_activation_checkpointing : {FALSE}]

\* cfg.lr_scheduler is read unconditionally by kd and with a default by dpo
ValidConfig(c) == c.recipe = "kd" => c.lr_scheduler

\* the losses a config of each recipe names; chunks_match says whether
\* loss and kd_loss have the same num_output_chunks, which only a chunked
\* task loss of kd is asked for
LossConfig(c) ==
    IF c.recipe = "dpo" THEN c.loss = "DPOLoss" /\ c.chunks_match
    ELSE /\ c.loss # "DPOLoss"
         /\ (c.loss # "CEWithChunkedOutputLoss" => c.chunks_match)

\* __init__ of dpo without the device test of activation offloading
InitRaises_AnyDevice(c) ==
    IF c.dtype = "fp16" THEN "ValueError: fp16 precision is not supported"
    ELSE IF c.recipe = "dpo" /\ c.enable_activation_offloading
            /\ ~c.enable_activation_checkpointing
    THEN "RuntimeError: offloading needs activation checkpointing"
    ELSE "none"

\* the exception __init__ raises: the dtype test comes first, the tests of
\* activation offloading are made by dpo only
InitRaises(c) ==
    IF c.dtype = "fp16" THEN "ValueError: fp16 precision is not supported"
    ELSE IF c.recipe = "dpo" /\ c.enable_activation_offloading
            /\ c.device # "cuda" /\ c.device # "xpu"
    THEN "RuntimeError: offloading needs CUDA or XPU"
    ELSE IF c.recipe = "dpo" /\ c.enable_activation_offloading
            /\ ~c.enable_activation_checkpointing
    THEN "RuntimeError: offloading needs activation checkpointing"
    ELSE "none"

\* the loss initialisation of setup() with the linear-projection test first
LossRaises_LinearOnly(c) ==
    IF c.recipe = "kd" /\ c.loss = "LinearCrossEntropyLoss"
    THEN "ValueError: linear losses are not supported"
    ELSE "none"

\* the exception the loss initialisation of setup() raises
LossRaises(c) ==
    IF c.recipe = "kd" /\ c.loss = "CEWithChunkedOutputLoss"
       /\ ~c.chunks_match
    THEN "AssertionError: num_output_chunks must be the same"
    ELSE IF c.recipe = "kd" /\ c.loss = "LinearCrossEntropyLoss"
    THEN "ValueError: linear losses are not supported"
    ELSE "none"

\* __init__: the public properties of a newly constructed recipe
Construct(c) ==
    /\ seed' = c.seed
    /\ epochs_run' = 0
    /\ total_epochs' = c.epochs
    /\ max_steps_per_epoch' = c.max_steps
    /\ global_step' = 0
    /\ save_every_n_steps' = c.save_every
    /\ steps_per_epoch' = None
    /\ checkpoint_dir_prefix' = "unset"
    /\ curr_epoch' = None
    /\ idx' = None
    /\ samplerEpoch' = None
    /\ window' = <<>>
    /\ optSteps' = 0
    /\ lrSteps' = 0
    /\ dlNext' = None
    /\ dlYielded' = 0
    /\ dlFinished' = FALSE
    /\ saved' = <<>>
    /\ steps' = <<>>
    /\ drained' = FALSE
    /\ stats' = ZeroStats
    /\ fed' = <<>>
    /\ to_log' = [step |-> 0]
    /\ metrics' = <<>>
    /\ warnings' = {}
    /\ num_training_steps' = None
    /\ pc' = IF InitRaises(c) # "none" THEN "error" ELSE "constructed"
    /\ err' = InitRaises(c)
    /\ errAt' = IF InitRaises(c) # "none" THEN "init" ELSE "none"

\* the first process: a newly constructed recipe over a base checkpoint
Constructed ==
    /\ loaded = BaseCheckpoint
    /\ seed = cfg.seed
    /\ epochs_run = 0
    /\ total_epochs = cfg.epochs
    /\ max_steps_per_epoch = cfg.max_steps
    /\ global_step = 0
    /\ save_every_n_steps = cfg.save_every
    /\ steps_per_epoch = None
    /\ checkpoint_dir_prefix = "unset"
    /\ curr_epoch = None
    /\ idx = None
    /\ samplerEpoch = None
    /\ window = <<>>
    /\ optSteps = 0
    /\ lrSteps = 0
    /\ dlNext = None
    /\ dlYielded = 0
    /\ dlFinished = FALSE
    /\ saved = <<>>
    /\ steps = <<>>
    /\ base = 0
    /\ drained = FALSE
    /\ epochsDone = 0
    /\ stepsInEpoch = 0
    /\ pc = IF InitRaises(cfg) # "none" THEN "error" ELSE "constructed"
    /\ err = InitRaises(cfg)
    /\ errAt = IF InitRaises(cfg) # "none" THEN "init" ELSE "none"
    /\ runs = 0
    /\ sameCfg = TRUE
    /\ refSteps = <<>>
    /\ refSaved = <<>>
    /\ resumedFrom = 0
    /\ stats = ZeroStats
    /\ fed = <<>>
    /\ to_log = [step |-> 0]
    /\ metrics = <<>>
    /\ warnings = {}
    /\ num_training_steps = None

Init ==
    /\ cfg \in {c \in FreshConfigs(Recipes, 1..MaxAccum, {1}, {1}) :
                    ValidConfig(c) /\ LossConfig(c)}
    /\ data = "fixed"
    /\ Constructed


\* ------------------------------------------------------------------ setup()

\* steps_per_epoch after the cap has been applied
ScheduleSteps(max_steps, raw) ==
    IF CapApplies(max_steps, raw) THEN max_steps ELSE raw

\* the cap applied without recomputing global_step
ScheduleGlobalStep_Kept(max_steps, raw, erun, g) == g

\* global_step after the cap has been applied
ScheduleGlobalStep(max_steps, raw, erun, g) ==
    IF CapApplies(max_steps, raw) THEN erun * max_steps ELSE g

\* an unset save_every_n_steps taken as "every step"
Cadence_EveryStep(save_every, spe) ==
    IF save_every = None THEN 1 ELSE save_every

\* save_every_n_steps after setup
Cadence(save_every, spe) == IF save_every = None THEN spe ELSE save_every

\* checkpoint_dir_prefix after setup
PrefixKind(save_every) == IF save_every = None THEN "epoch" ELSE "step"

\* the dataloader drained on every resume
ShouldDrain_OnResume(resume, g, spe) == resume

\* resume_from_checkpoint and global_step % steps_per_epoch == 0
ShouldDrain(resume, g, spe) == resume /\ g % spe = 0

\* the cursor _setup_data loads into the dataloader: kd loads the
\* checkpoint's dataloader state, dpo loads none
LoadedCursor(recipe, ck) == IF recipe = "kd" THEN ck.dl ELSE None

\* the scheduler told the steps of one epoch only
NumTrainingSteps_OneEpoch(total, spe) == spe

\* num_training_steps of _setup_lr_scheduler
NumTrainingSteps(total, spe) == total * spe

\* resume_from_checkpoint on a checkpoint dict without adapter weights,
\* never rejected
AdapterMissing_Accepted(resume, ck) == FALSE

\* a checkpoint dict without adapter weights rejected by every run
AdapterMissing_AnyRun(resume, ck) == ~ck.adapter

\* resume_from_checkpoint on a checkpoint dict without adapter weights
AdapterMissing(resume, ck) == resume /\ ~ck.adapter

Setup ==
    /\ pc = "constructed"
    /\ LET st0 == [epochs_run |-> epochs_run, global_step |-> global_step,
                   seed |-> seed, max_steps_per_epoch |-> max_steps_per_epoch,
                   total_epochs |-> total_epochs, raised |-> FALSE]
           noAdapter == AdapterMissing(cfg.resume, loaded)
           st1 == IF cfg.resume /\ ~noAdapter
                  THEN UpdateRecipeState(cfg.recipe, st0, loaded) ELSE st0
           early == IF noAdapter THEN "ValueError: adapter weights not found"
                    ELSE IF st1.raised THEN "KeyError: required keys"
                    ELSE LossRaises(cfg)
           raw == StepsPerEpoch(cfg.len, cfg.accum)
           spe == ScheduleSteps(st1.max_steps_per_epoch, raw)
           gs  == ScheduleGlobalStep(st1.max_steps_per_epoch, raw,
                                     st1.epochs_run, st1.global_step)
           zero == cfg.resume /\ spe = 0
           drain == IF zero THEN FALSE ELSE ShouldDrain(cfg.resume, gs, spe)
       IN  /\ warnings' = IF cfg.resume /\ ~noAdapter
                           THEN Warnings(cfg.recipe, st0, loaded) ELSE {}
           /\ seed' = st1.seed
           /\ epochs_run' = st1.epochs_run
           /\ max_steps_per_epoch' = st1.max_steps_per_epoch
           /\ total_epochs' = st1.total_epochs
           /\ IF early # "none"
              THEN /\ global_step' = st1.global_step
                   /\ pc' = "error"
                   /\ err' = early
                   /\ errAt' = "setup"
                   /\ UNCHANGED <<steps_per_epoch, save_every_n_steps,
                                  checkpoint_dir_prefix, drained, dlVars,
                                  num_training_steps>>
              ELSE /\ steps_per_epoch' = spe
                   /\ num_training_steps' =
                         IF zero THEN num_training_steps
                         ELSE NumTrainingSteps(st1.total_epochs, spe)
                   /\ global_step' = gs
                   /\ save_every_n_steps' = Cadence(save_every_n_steps, spe)
                   /\ checkpoint_dir_prefix' = PrefixKind(save_every_n_steps)
                   /\ drained' = drain
                   /\ IF drain
                      THEN /\ dlNext' = None
                           /\ dlYielded' = cfg.len
                           /\ dlFinished' = TRUE
                      ELSE /\ dlNext' = LoadedCursor(cfg.recipe, loaded)
                           /\ UNCHANGED <<dlYielded, dlFinished>>
                   /\ IF zero
                      THEN /\ pc' = "error"
                           /\ err' = "ZeroDivisionError"
                           /\ errAt' = "setup"
                      ELSE pc' = "train" /\ UNCHANGED <<err, errAt>>
    /\ UNCHANGED <<cfg, data, loaded, loopVars, saved, steps, base, truthVars,
                   histVars, statVars>>

\* ------------------------------------------------------------------ train()

\* train() up to the epoch loop: the running statistics start at zero
TrainBegin ==
    /\ pc = "train"
    /\ UNCHANGED <<warnings, num_training_steps>>
    /\ window' = <<>>
    /\ stats' = ZeroStats
    /\ fed' = <<>>
    /\ pc' = "for_epoch"
    /\ UNCHANGED <<cfg, data, loaded, err, errAt, recipeVars, curr_epoch, idx,
                   samplerEpoch, optSteps, lrSteps, dlVars, saved, steps,
                   base, drained, truthVars, histVars, to_log, metrics>>

\* the epoch range started at 0 whatever epochs_run is
NextEpoch_FromZero == IF curr_epoch = None THEN 0 ELSE curr_epoch + 1

\* the next value of range(self.epochs_run, self.total_epochs)
NextEpoch == IF curr_epoch = None THEN epochs_run ELSE curr_epoch + 1

\* entry of an epoch: set_epoch, then enumerate(self._dataloader)
EpochEnter ==
    /\ pc = "for_epoch"
    /\ NextEpoch < total_epochs
    /\ UNCHANGED <<warnings, num_training_steps>>
    /\ curr_epoch' = NextEpoch
    /\ samplerEpoch' = NextEpoch
    /\ idx' = 0
    /\ dlYielded' = IF dlNext # None THEN dlNext ELSE 0
    /\ dlNext' = None
    /\ dlFinished' = FALSE
    /\ pc' = "for_batch"
    /\ UNCHANGED <<cfg, data, loaded, err, errAt, recipeVars, window, optSteps,
                   lrSteps, saved, steps, base, drained, truthVars, histVars,
                   statVars>>

\* full_tensors of the save_checkpoint call in the step branch
IntermediateFullTensors == FALSE

\* the call after the epoch loop made like the one in the step branch
FinalFullTensors_AsIntermediate == FALSE

\* full_tensors of the save_checkpoint call after the epoch loop
FinalFullTensors == TRUE

\* the record the checkpoint sink receives from save_checkpoint
Checkpoint(epoch, full, g, yielded, finished, pending, k, n) ==
    [epoch        |-> epoch,
     full         |-> full,
     prefix       |-> DirPrefix(cfg.recipe, checkpoint_dir_prefix),
     seed         |-> seed,
     epochs_run   |-> ProgressEpoch(cfg.recipe, epoch, epochs_run, g,
                                    steps_per_epoch),
     total_epochs |-> total_epochs,
     max_steps    |-> max_steps_per_epoch,
     steps_run    |-> SinkStepsRun(g),
     tp_steps_run |-> ProgressStepsRun(g),
     self_epochs_run |-> epochs_run,
     dl           |-> DataloaderStateDict(yielded, finished),
     g            |-> g,
     pending      |-> pending,
     nsteps       |-> base + n,
     gE           |-> epochsDone,
     gK           |-> k]

\* one iteration of the microbatch loop
Microbatch ==
    /\ pc = "for_batch"
    /\ dlYielded < cfg.len
    /\ UNCHANGED <<warnings, num_training_steps>>
    /\ dlYielded' = dlYielded + 1
    /\ idx' = idx + 1
    /\ \E batch \in Batches(cfg.recipe, data) :
       IF cfg.recipe = "dpo"
          /\ ShouldBreakDPO(idx, cfg.accum, max_steps_per_epoch)
       THEN /\ pc' = "epoch_end"
            /\ to_log' = [step |-> 0]
            /\ UNCHANGED <<global_step, window, optSteps, lrSteps, saved,
                           steps, stepsInEpoch, err, errAt, stats, fed,
                           metrics>>
       ELSE LET mbs == Append(window, <<samplerEpoch, dlYielded>>)
                st == IF cfg.recipe = "kd" THEN AccumulateKD(stats, batch)
                      ELSE AccumulateDPO(stats, batch, cfg.accum)
                fd == Append(fed,
                        [batch |-> batch,
                         calls |-> Execute(LoopBody(cfg.recipe), OpenContext,
                                           batch),
                         loss  |-> BackwardLoss(cfg.recipe, cfg.kd_ratio,
                                                cfg.accum, batch)])
                stepNow == ShouldStep(idx, cfg.accum)
                g == global_step + 1
                \* global_step % save_every_n_steps with a zero cadence
                zero == stepNow /\ save_every_n_steps = 0
                ck == ShouldCheckpoint(g, save_every_n_steps, curr_epoch,
                                       total_epochs)
            IN  /\ IF stepNow
                   THEN /\ optSteps' = optSteps + 1
                        /\ lrSteps' = IF cfg.lr_scheduler THEN lrSteps + 1
                                      ELSE lrSteps
                        /\ global_step' = g
                        /\ stepsInEpoch' = stepsInEpoch + 1
                        /\ steps' = Append(steps,
                              [g |-> g, epoch |-> curr_epoch, idx |-> idx,
                               mbs |-> mbs, ckpt |-> ~zero /\ ck,
                               order |->
                                 UpdateWeights(cfg.recipe, cfg.clip_grad_norm,
                                               cfg.lr_scheduler)
                                 \o AfterUpdate(ShouldLog(g, cfg.log_every),
                                                zero, ck)])
                        /\ to_log' =
                              [step   |-> g,
                               values |-> IF cfg.recipe = "kd"
                                          THEN ToLogKD(st, cfg.kd_ratio)
                                          ELSE ToLogDPO(st, batch),
                               of     |-> fd,
                               applied |-> AppliedLoss(cfg.recipe, fd, st),
                               num_tokens |-> st.num_tokens,
                               adapters |->
                                 ContextAtEnd(LoopBody(cfg.recipe),
                                              OpenContext).adapters,
                               logged |-> ShouldLog(g, cfg.log_every)]
                        /\ metrics' = IF ShouldLog(g, cfg.log_every)
                                      THEN Append(metrics, g) ELSE metrics
                        /\ saved' = IF ~zero /\ ck
                              THEN Append(saved,
                                     Checkpoint(curr_epoch,
                                                IntermediateFullTensors, g,
                                                dlYielded + 1, FALSE, 0,
                                                stepsInEpoch + 1,
                                                Len(steps) + 1))
                              ELSE saved
                        /\ window' = IF zero THEN mbs ELSE <<>>
                        /\ stats' = IF zero THEN st
                                     ELSE ResetStats(cfg.recipe, st)
                        /\ fed' = IF zero THEN fd ELSE <<>>
                   ELSE /\ window' = mbs
                        /\ stats' = st
                        /\ fed' = fd
                        /\ to_log' = [step |-> 0]
                        /\ UNCHANGED <<global_step, optSteps, lrSteps, saved,
                                       steps, stepsInEpoch, metrics>>
                /\ IF zero
                   THEN /\ pc' = "error"
                        /\ err' = "ZeroDivisionError"
                        /\ errAt' = "train"
                   ELSE /\ pc' = IF cfg.recipe = "kd"
                                    /\ ShouldBreakKD(idx, cfg.accum,
                                                     max_steps_per_epoch)
                                 THEN "epoch_end" ELSE "for_batch"
                        /\ UNCHANGED <<err, errAt>>
    /\ UNCHANGED <<cfg, data, loaded, seed, epochs_run, total_epochs,
                   max_steps_per_epoch, steps_per_epoch, save_every_n_steps,
                   checkpoint_dir_prefix, curr_epoch, samplerEpoch, dlNext,
                   dlFinished, base, drained, epochsDone, histVars>>

\* the microbatch loop exits (data source exhausted, or break)
EpochExit ==
    /\ \/ pc = "epoch_end"
       \/ pc = "for_batch" /\ dlYielded >= cfg.len
    /\ dlFinished' = (pc = "for_batch")
    /\ UNCHANGED <<warnings, num_training_steps>>
    /\ epochs_run' = epochs_run + 1
    /\ epochsDone' = epochsDone + 1
    /\ stepsInEpoch' = 0
    /\ to_log' = [step |-> 0]
    /\ pc' = "for_epoch"
    /\ UNCHANGED <<cfg, data, loaded, err, errAt, seed, total_epochs,
                   max_steps_per_epoch, global_step, steps_per_epoch,
                   save_every_n_steps, checkpoint_dir_prefix, loopVars,
                   dlNext, dlYielded, saved, steps, base, drained, histVars,
                   stats, fed, metrics>>

\* the exception save_checkpoint(epoch=curr_epoch, full_tensors=True)
\* raises: curr_epoch is unbound when the epoch loop had no iteration, and
\* kd divides by steps_per_epoch
FinalRaises ==
    IF curr_epoch = None THEN "UnboundLocalError"
    ELSE IF cfg.recipe = "kd" /\ steps_per_epoch = 0 THEN "ZeroDivisionError"
    ELSE "none"

\* after the epoch loop: the final full-weights checkpoint
FinalCheckpoint ==
    /\ pc = "for_epoch"
    /\ NextEpoch >= total_epochs
    /\ UNCHANGED <<warnings, num_training_steps>>
    /\ IF FinalRaises # "none"
       THEN /\ pc' = "error"
            /\ err' = FinalRaises
            /\ errAt' = "train"
            /\ UNCHANGED saved
       ELSE /\ pc' = "done"
            /\ saved' = Append(saved,
                   Checkpoint(curr_epoch, FinalFullTensors, global_step,
                              dlYielded,
                              dlFinished, Len(window), stepsInEpoch,
                              Len(steps)))
            /\ UNCHANGED <<err, errAt>>
    /\ UNCHANGED <<cfg, data, loaded, recipeVars, loopVars, dlVars, steps, base,
                   drained, truthVars, histVars, statVars>>

\* ------------------------------------------------- a new, resuming process

\* the recipe state load_base_checkpoint returns for a saved checkpoint
LoadCheckpoint(ck) ==
    [epochs_run |-> ck.epochs_run, steps_run |-> ck.steps_run,
     seed |-> ck.seed, max_steps |-> ck.max_steps,
     total_epochs |-> ck.total_epochs, dl |-> ck.dl, keys |-> RecipeKeys,
     adapter |-> TRUE]

\* the entries a checkpoint file that is not a complete recipe checkpoint
\* can lack: one entry, or all of them (a base-model checkpoint)
Lacking ==
    {{x} : x \in RecipeKeys \cup {ADAPTER_KEY}}
        \cup {RecipeKeys \cup {ADAPTER_KEY}}

\* load_base_checkpoint on a checkpoint file without the entries of rm
LoadLacking(ck, rm) ==
    [LoadCheckpoint(ck) EXCEPT !.keys = RecipeKeys \ rm,
                               !.adapter = ADAPTER_KEY \notin rm]

\* the log of all optimizer steps behind the state of this process
FullSteps == SubSeq(refSteps, 1, base) \o steps

\* recipe_main is started again with resume_from_checkpoint on one of the
\* checkpoints of the completed run; seed, step cap and epoch count of the
\* config may have been edited
Restart ==
    /\ pc = "done"
    /\ runs = 0
    /\ \E k \in 1..Len(saved), s \in Seeds, m \in OptInt(MaxCap),
          t \in 1..MaxEpochs :
        LET c == [cfg EXCEPT !.resume = TRUE, !.seed = s, !.max_steps = m,
                             !.epochs = t]
        IN  /\ cfg' = c
            /\ Construct(c)
            /\ loaded' = LoadCheckpoint(saved[k])
            /\ base' = saved[k].nsteps
            /\ epochsDone' = saved[k].gE
            /\ stepsInEpoch' = saved[k].gK
            /\ resumedFrom' = k
            /\ sameCfg' = (c = [cfg EXCEPT !.resume = TRUE])
    /\ runs' = 1
    /\ refSteps' = FullSteps
    /\ refSaved' = saved
    /\ UNCHANGED data

\* recipe_main is started with resume_from_checkpoint on a checkpoint file
\* that lacks entries of a recipe checkpoint
RestartLacking ==
    /\ pc = "done"
    /\ runs = 0
    /\ \E k \in 1..Len(saved), s \in Seeds, m \in OptInt(MaxCap),
          rm \in Lacking :
        LET c == [cfg EXCEPT !.resume = TRUE, !.seed = s, !.max_steps = m]
        IN  /\ cfg' = c
            /\ Construct(c)
            /\ loaded' = LoadLacking(saved[k], rm)
            /\ base' = saved[k].nsteps
            /\ epochsDone' = saved[k].gE
            /\ stepsInEpoch' = saved[k].gK
            /\ resumedFrom' = k
            /\ sameCfg' = (c = [cfg EXCEPT !.resume = TRUE])
    /\ runs' = 1
    /\ refSteps' = FullSteps
    /\ refSaved' = saved
    /\ UNCHANGED data

\* recipe_main is started again without resume_from_checkpoint, and
\* load_base_checkpoint returns the dict of the final checkpoint of the
\* completed run, recipe state included; seed, step cap and epoch count of
\* the config may have been edited
RestartFresh ==
    /\ pc = "done"
    /\ runs = 0
    /\ \E k \in {Len(saved)}, s \in Seeds, m \in OptInt(MaxCap),
          t \in 1..MaxEpochs :
        LET c == [cfg EXCEPT !.seed = s, !.max_steps = m, !.epochs = t]
        IN  /\ cfg' = c
            /\ Construct(c)
            /\ loaded' = LoadCheckpoint(saved[k])
            /\ resumedFrom' = k
            /\ sameCfg' = (c = cfg)
    /\ base' = 0
    /\ epochsDone' = 0
    /\ stepsInEpoch' = 0
    /\ runs' = 1
    /\ refSteps' = FullSteps
    /\ refSaved' = saved
    /\ UNCHANGED data

\* one process running recipe_main
NextRun ==
    \/ Setup
    \/ TrainBegin
    \/ EpochEnter
    \/ Microbatch
    \/ EpochExit
    \/ FinalCheckpoint

Next ==
    \/ NextRun
    \/ Restart
    \/ RestartLacking

Spec == Init /\ [][Next]_vars

\* ---------------------------------------- one run over arbitrary batches

\* the configs of the runs whose batches are left open: at most MaxBatches
\* microbatches, an optimizer step in every epoch, default checkpoint
\* cadence, no step cap
OpenConfigs(recipe, accums, logs) ==
    {c \in FreshConfigs({recipe}, accums, 0..RatioDen, logs) :
        /\ ValidConfig(c)
        /\ LossConfig(c)
        /\ InitRaises(c) = "none"
        /\ LossRaises(c) = "none"
        /\ c.loss # "CrossEntropyLoss"
        /\ c.lr_scheduler
        /\ c.max_steps = None
        /\ c.save_every = None
        /\ c.len >= c.accum
        /\ c.len * c.epochs <= MaxBatches}

\* a kd run over every sequence of batches
InitWindow ==
    /\ cfg \in OpenConfigs("kd", 1..MaxAccum, {1})
    /\ data = "any"
    /\ Constructed

SpecWindow == InitWindow /\ [][NextRun]_vars

\* a dpo run of one microbatch and one optimizer step over every batch of
\* preference pairs
InitPreference ==
    /\ cfg \in {c \in OpenConfigs("dpo", {1}, 1..MaxLogEvery) :
                    c.len = 1 /\ c.epochs = 1 /\ c.kd_ratio = 1}
    /\ data = "any"
    /\ Constructed

SpecPreference == InitPreference /\ [][NextRun]_vars

\* --------------------------------- one run under every step configuration

\* the configs that reach train(), with clip_grad_norm (read by kd only)
\* and log_every_n_steps left open
StepConfigs ==
    {[c EXCEPT !.clip_grad_norm = k] :
        c \in {d \in FreshConfigs(Recipes, 1..MaxAccum, {1}, 1..MaxLogEvery) :
                    /\ ValidConfig(d)
                    /\ LossConfig(d)
                    /\ InitRaises(d) = "none"
                    /\ LossRaises(d) = "none"
                    /\ d.loss # "CrossEntropyLoss"},
        k \in BOOLEAN}

InitStep ==
    /\ cfg \in {c \in StepConfigs : c.recipe = "dpo" => ~c.clip_grad_norm}
    /\ data = "fixed"
    /\ Constructed

SpecStep == InitStep /\ [][NextRun]_vars

\* ------------------ a second, non-resuming process on a recipe checkpoint

SpecFresh == Init /\ [][NextRun \/ RestartFresh]_vars

\* ------------------------------- one dpo run over batches of every size

InitAccum ==
    /\ cfg \in {c \in OpenConfigs("dpo", 1..MaxAccum, 1..MaxLogEvery) :
                    c.kd_ratio = 1}
    /\ data = "sized"
    /\ Constructed

SpecAccum == InitAccum /\ [][NextRun]_vars

\* ------------------------- one dpo run under every offloading configuration

\* the dpo configs with the device and the activation flags left open
OffloadConfigs ==
    {[c EXCEPT !.device = d, !.enable_activation_offloading = o,
               !.enable_activation_checkpointing = a] :
        c \in {x \in FreshConfigs({"dpo"}, {1}, {1}, {1}) :
                    ValidConfig(x) /\ LossConfig(x)},
        d \in Devices, o \in BOOLEAN, a \in BOOLEAN}

InitOffload ==
    /\ cfg \in OffloadConfigs
    /\ data = "fixed"
    /\ Constructed

SpecOffload == InitOffload /\ [][NextRun]_vars

\* ================================================================== claims

InTrain == pc \in {"for_epoch", "for_batch", "epoch_end", "done"}
Fresh == runs = 0

\* <<global_step, full_tensors>> of every call of the sink, in order
SavedTrace == [k \in 1..Len(saved) |-> <<saved[k].g, saved[k].full>>]

\* the calls of the sink with full_tensors = False
Intermediate == SelectSeq(saved, LAMBDA c : ~c.full)

IsPrefix(s, t) == Len(s) <= Len(t) /\ SubSeq(t, 1, Len(s)) = s

\* the optimizer steps of this process that land on a cadence point outside
\* the final epoch
AtCadence(r) ==
    /\ save_every_n_steps # 0
    /\ r.g % save_every_n_steps = 0
    /\ r.epoch # total_epochs - 1

\* C1: an intermediate checkpoint is emitted after an optimizer step iff the
\* new global_step is a multiple of save_every_n_steps and the epoch is not
\* the final one, and nowhere else in train(); an unset save_every_n_steps
\* makes the cadence steps_per_epoch.
C1_CheckpointIffCadence ==
    InTrain =>
        /\ LET due == SelectSeq(steps, AtCadence)
           IN  /\ Len(Intermediate) = Len(due)
               /\ \A k \in 1..Len(due) :
                     /\ Intermediate[k].g = due[k].g
                     /\ Intermediate[k].epoch = due[k].epoch
        /\ cfg.save_every = None => save_every_n_steps = steps_per_epoch
        /\ cfg.save_every # None => save_every_n_steps = cfg.save_every

C1_Witness ==
    /\ pc = "done"
    /\ \E i \in DOMAIN steps : AtCadence(steps[i])
    /\ \E i \in DOMAIN steps :
          steps[i].g % save_every_n_steps = 0 /\ ~AtCadence(steps[i])
    /\ \E i \in DOMAIN steps : steps[i].g % save_every_n_steps # 0

\* the run of C2: fresh, 2 epochs, 4 steps per epoch, save_every_n_steps = 2
C2_Scenario ==
    /\ Fresh
    /\ cfg.epochs = 2
    /\ steps_per_epoch = 4
    /\ cfg.save_every = 2

\* C2 as stated: that run emits intermediate checkpoints at global_step 2,
\* 4 and 6 and then the final full checkpoint; only the cadence point 8 is
\* suppressed.
C2_ThreeIntermediate ==
    (C2_Scenario /\ pc = "done") =>
        SavedTrace = << <<2, FALSE>>, <<4, FALSE>>, <<6, FALSE>>,
                        <<8, TRUE>> >>

\* C2 amended: that run emits intermediate checkpoints at global_step 2 and
\* 4 only, then the final full checkpoint; the cadence points 6 and 8 both
\* lie in the final epoch and are suppressed.
C2_StepCadenceRun ==
    (C2_Scenario /\ InTrain) =>
        LET expected == << <<2, FALSE>>, <<4, FALSE>>, <<8, TRUE>> >>
        IN  /\ IsPrefix(SavedTrace, expected)
            /\ global_step >= 2 => Len(saved) >= 1
            /\ global_step >= 4 => Len(saved) >= 2
            /\ pc = "done" => SavedTrace = expected

C2_Witness == C2_Scenario /\ pc = "done" /\ global_step = 8 /\ Len(saved) = 3

\* the sink calls the default cadence is said to produce in an N-epoch run:
\* one intermediate checkpoint closing each of the first N-1 epochs, then
\* the final one
DefaultCadenceTrace(n, spe) ==
    [k \in 1..n |-> <<k * spe, k = n>>]

\* C3 as stated: every fresh run with save_every_n_steps unset ends with
\* exactly those sink calls.
C3_DefaultCadenceAnyRun ==
    (Fresh /\ cfg.save_every = None /\ pc = "done") =>
        /\ SavedTrace = DefaultCadenceTrace(cfg.epochs, steps_per_epoch)
        /\ \A k \in 1..Len(saved) - 1 : saved[k].epoch = k - 1

\* C3 amended: the same for the runs that take optimizer steps
\* (steps_per_epoch >= 1), among them the 2-epoch run with 4 steps per epoch.
C3_DefaultCadenceRun ==
    (Fresh /\ cfg.save_every = None /\ steps_per_epoch >= 1 /\ InTrain) =>
        /\ IsPrefix(SavedTrace,
                    DefaultCadenceTrace(cfg.epochs, steps_per_epoch))
        /\ \A k \in 1..Len(saved) :
              ~saved[k].full => saved[k].epoch = k - 1
        /\ pc = "done" =>
              SavedTrace = DefaultCadenceTrace(cfg.epochs, steps_per_epoch)

C3_Witness ==
    /\ Fresh /\ cfg.save_every = None /\ pc = "done"
    /\ cfg.epochs = 2 /\ steps_per_epoch = 4
    /\ SavedTrace = << <<4, FALSE>>, <<8, TRUE>> >>

Floor(len, accum) ==
    CHOOSE q \in 0..len : q * accum <= len /\ len < (q + 1) * accum

\* epochs_run and global_step as they stand before the schedule is derived
EpochsBeforeSchedule == IF cfg.resume THEN loaded.epochs_run ELSE 0
StepBeforeSchedule ==
    IF cfg.resume /\ cfg.recipe = "kd" THEN loaded.steps_run ELSE 0

SetupReturned == pc = "train"

\* C5: setup leaves steps_per_epoch = floor(len / accum) and global_step
\* untouched, unless max_steps_per_epoch is set and strictly smaller: then
\* steps_per_epoch = max_steps_per_epoch and global_step = epochs_run *
\* max_steps_per_epoch, whatever step count the checkpoint held.
C5_ScheduleDerivation ==
    SetupReturned =>
        LET f == Floor(cfg.len, cfg.accum)
            m == max_steps_per_epoch
        IN  IF m # None /\ m < f
            THEN /\ steps_per_epoch = m
                 /\ global_step = EpochsBeforeSchedule * m
            ELSE /\ steps_per_epoch = f
                 /\ global_step = StepBeforeSchedule

C5_Witness ==
    /\ SetupReturned
    /\ cfg.resume /\ cfg.recipe = "kd"
    /\ max_steps_per_epoch # None
    /\ max_steps_per_epoch < Floor(cfg.len, cfg.accum)
    /\ loaded.steps_run # global_step
    /\ global_step = loaded.epochs_run * max_steps_per_epoch

\* a resume where config and checkpoint disagree on all three fields
AllDiffer ==
    /\ cfg.resume
    /\ loaded.seed # cfg.seed
    /\ loaded.max_steps # cfg.max_steps
    /\ loaded.total_epochs # cfg.epochs

\* C6: after such a resume the recipe holds the checkpoint's seed, step cap
\* and epochs_run and the config's total_epochs.
C6_ResumeReconciliation ==
    (AllDiffer /\ pc # "constructed") =>
        /\ seed = loaded.seed
        /\ max_steps_per_epoch = loaded.max_steps
        /\ total_epochs = cfg.epochs
        /\ pc = "train" => epochs_run = loaded.epochs_run

C6_Witness ==
    /\ AllDiffer /\ pc = "train"
    /\ epochs_run = loaded.epochs_run /\ epochs_run > 0
    /\ seed # cfg.seed /\ total_epochs # loaded.total_epochs

\* one optimizer step as an observer of the run sees it
StepView(r) == [g |-> r.g, epoch |-> r.epoch, mbs |-> r.mbs, ckpt |-> r.ckpt]

\* a kd process resumed, with an unchanged config, from an intermediate
\* checkpoint of a completed run
ResumedKD ==
    /\ runs = 1 /\ sameCfg /\ cfg.recipe = "kd"
    /\ ~refSaved[resumedFrom].full

\* C7 as stated: every optimizer step of the resumed kd run is the step the
\* uninterrupted run took at the same ordinal (same global_step, same
\* microbatches in the window, same checkpoint decision), and the resumed
\* run ends after the same number of steps.
C7_ResumeReplaysRun ==
    ResumedKD =>
        /\ \A i \in 1..Len(steps) :
              /\ base + i <= Len(refSteps)
              /\ StepView(steps[i]) = StepView(refSteps[base + i])
        /\ pc = "done" => base + Len(steps) = Len(refSteps)

\* C8 as stated: every checkpoint of either recipe records epochs_run =
\* epoch + 1 when its global_step is a multiple of steps_per_epoch and
\* epochs_run = epoch otherwise.
C8_ProgressEpoch ==
    \A k \in 1..Len(saved) :
        steps_per_epoch > 0 =>
            saved[k].epochs_run =
                IF saved[k].g % steps_per_epoch = 0
                THEN saved[k].epoch + 1 ELSE saved[k].epoch

\* C9 as stated: from the return of setup on, also in a process resumed
\* with an unchanged config, global_step = E * steps_per_epoch + k with E
\* the epochs completed and k the optimizer steps completed in the current
\* epoch, both counted across the resume.
C9_GlobalStepInvariant ==
    (sameCfg /\ pc \in {"train", "for_epoch", "for_batch", "epoch_end",
                        "done"}) =>
        global_step = epochsDone * steps_per_epoch + stepsInEpoch

\* a microbatch went through forward and backward in this step
Trained == Len(window') = Len(window) + 1 \/ optSteps' = optSteps + 1

\* C10: inside train() global_step changes only by +1 together with an
\* optimizer step; a trained microbatch with index idx is followed by an
\* optimizer step iff (idx + 1) % gradient_accumulation_steps = 0; without
\* an optimizer step global_step and the scheduler stay as they are.
C10_StepOnlyAtWindowEnd ==
    [][ (pc \in {"for_epoch", "for_batch", "epoch_end"}
         /\ pc' # "constructed") =>
          /\ global_step' # global_step =>
                /\ global_step' = global_step + 1
                /\ optSteps' = optSteps + 1
                /\ pc = "for_batch"
          /\ optSteps' # optSteps =>
                /\ optSteps' = optSteps + 1
                /\ global_step' = global_step + 1
                /\ lrSteps' = IF cfg.lr_scheduler THEN lrSteps + 1
                              ELSE lrSteps
          /\ (pc = "for_batch" /\ Trained) =>
                ((optSteps' = optSteps + 1) <=>
                     (idx + 1) % cfg.accum = 0)
          /\ optSteps' = optSteps =>
                /\ global_step' = global_step
                /\ lrSteps' = lrSteps ]_vars

C10_Witness ==
    /\ pc = "for_batch" /\ cfg.accum = 2
    /\ Len(window) = 1 /\ optSteps = 1 /\ global_step = 1 /\ idx = 3

\* C11 as stated: every optimizer step is fed by exactly
\* gradient_accumulation_steps microbatches, all of them drawn in the epoch
\* of the step.
C11_WindowIsOneCycle ==
    \A i \in DOMAIN steps :
        /\ Len(steps[i].mbs) = cfg.accum
        /\ \A j \in DOMAIN steps[i].mbs : steps[i].mbs[j][1] = steps[i].epoch

\* C12 as stated: at every call of the checkpoint sink, intermediate or
\* final, no microbatch has been accumulated since the last optimizer step.
C12_NoPartialWindowSaved ==
    \A k \in DOMAIN saved : saved[k].pending = 0

\* setup() has been called and has returned or raised
SetupEnded == pc # "constructed"

\* nothing of train() has happened in this process
NothingTrained ==
    /\ steps = <<>>
    /\ saved = <<>>
    /\ window = <<>>
    /\ optSteps = 0
    /\ lrSteps = 0
    /\ dlYielded = 0
    /\ curr_epoch = None
    /\ metrics = <<>>
    /\ to_log.step = 0

\* C13 as stated: in both recipes a resume from a checkpoint that has the
\* adapter weights but lacks a recipe-state key (epochs run, step count,
\* seed, max_steps_per_epoch or total_epochs) ends setup with the wrapped
\* KeyError, and training does not start.
C13_MissingKeyRaises ==
    (/\ SetupEnded
     /\ cfg.resume
     /\ loaded.adapter
     /\ RecipeKeys \ loaded.keys # {})
        => /\ pc = "error"
           /\ err = "KeyError: required keys"
           /\ errAt = "setup"
           /\ NothingTrained

\* C14: in both recipes a resume from a checkpoint without adapter weights
\* ends setup with ValueError before _update_recipe_state has assigned
\* anything: epochs_run, global_step, seed and max_steps_per_epoch hold the
\* values __init__ gave them, and nothing of train() happens.
C14_NoAdapterRejected ==
    (SetupEnded /\ cfg.resume /\ ~loaded.adapter)
        => /\ pc = "error"
           /\ err = "ValueError: adapter weights not found"
           /\ errAt = "setup"
           /\ epochs_run = 0
           /\ global_step = 0
           /\ seed = cfg.seed
           /\ max_steps_per_epoch = cfg.max_steps
           /\ NothingTrained

\* a resume without adapter weights has been rejected although the
\* checkpoint holds every recipe-state key, with values that differ from
\* the config's
C14_Witness ==
    /\ SetupEnded
    /\ cfg.resume
    /\ ~loaded.adapter
    /\ loaded.keys = RecipeKeys
    /\ loaded.epochs_run > 0
    /\ loaded.steps_run > 0
    /\ loaded.seed # cfg.seed
    /\ loaded.max_steps # cfg.max_steps
    /\ err = "ValueError: adapter weights not found"

\* C15: a config with fp16 precision (both recipes), with a chunked task
\* loss whose num_output_chunks differs from the distillation loss's, or
\* with a linear-projection task loss (kd) makes __init__ respectively
\* setup raise, and in such a run no microbatch is processed, no optimizer
\* step taken, no metric logged and no checkpoint saved.
C15_ConfigErrorsBeforeTrain ==
    LET fp16 == cfg.dtype = "fp16"
        chunks == /\ cfg.recipe = "kd"
                  /\ cfg.loss = "CEWithChunkedOutputLoss"
                  /\ ~cfg.chunks_match
        linear == cfg.recipe = "kd" /\ cfg.loss = "LinearCrossEntropyLoss"
    IN  /\ fp16 => /\ pc = "error"
                   /\ err = "ValueError: fp16 precision is not supported"
                   /\ errAt = "init"
                   /\ NothingTrained
        /\ (~fp16 /\ (chunks \/ linear) /\ SetupEnded)
              => /\ pc = "error"
                 /\ errAt = "setup"
                 /\ err = IF chunks
                          THEN "AssertionError: num_output_chunks must be the same"
                          ELSE "ValueError: linear losses are not supported"
                 /\ NothingTrained

\* setup has rejected a chunked task loss whose num_output_chunks differs
\* from the distillation loss's
C15_Witness ==
    /\ cfg.recipe = "kd"
    /\ cfg.loss = "CEWithChunkedOutputLoss"
    /\ ~cfg.chunks_match
    /\ pc = "error"
    /\ errAt = "setup"

\* the batches behind the values computed at the optimizer step just taken
LastWindow == [i \in DOMAIN to_log.of |-> to_log.of[i].batch]
TokensOf(w) == Sum([i \in DOMAIN w |-> w[i].tokens])
ClassLossOf(w) == Sum([i \in DOMAIN w |-> w[i].class_loss * w[i].tokens])
KdLossOf(w) == Sum([i \in DOMAIN w |-> w[i].kd_loss * w[i].tokens])

\* C16: in kd the class_loss and kd_loss computed for logging at an
\* optimizer step are sum(l_i * t_i) / sum(t_i) over the microbatches of the
\* window, and right after the step the running sums and the token count
\* are zero.
C16_WindowAverage ==
    (cfg.recipe = "kd" /\ to_log.step > 0)
        => /\ FEq(to_log.values.class_loss,
                  Frac(ClassLossOf(LastWindow), TokensOf(LastWindow)))
           /\ FEq(to_log.values.kd_loss,
                  Frac(KdLossOf(LastWindow), TokensOf(LastWindow)))
           /\ to_log.values.class_loss[2] > 0
           /\ to_log.step = global_step
           /\ pc # "error" => stats = ZeroStats

\* a step has been taken on a window of two microbatches with different
\* token counts and different losses, where the token-weighted average
\* differs from the plain average
C16_Witness ==
    /\ cfg.recipe = "kd"
    /\ to_log.step > 0
    /\ stats = ZeroStats
    /\ Len(LastWindow) = 2
    /\ LastWindow[1].tokens # LastWindow[2].tokens
    /\ LastWindow[1].class_loss # LastWindow[2].class_loss
    /\ LastWindow[1].kd_loss # LastWindow[2].kd_loss

\* C17: in kd the loss of every microbatch passed to backward is
\* (1 - kd_ratio) * class_loss + kd_ratio * kd_loss, the total computed for
\* logging is the same combination of the two logged components, and it
\* equals the class loss for kd_ratio = 0 and the kd loss for kd_ratio = 1.
C17_LossComposition ==
    LET q == cfg.kd_ratio
        Comb(c, k) == Frac((RatioDen - q) * c[1] * k[2] + q * k[1] * c[2],
                           RatioDen * c[2] * k[2])
    IN  cfg.recipe = "kd"
        => /\ \A i \in DOMAIN fed :
                 FEq(fed[i].loss, Comb(Frac(fed[i].batch.class_loss, 1),
                                       Frac(fed[i].batch.kd_loss, 1)))
           /\ to_log.step > 0
                 => /\ \A i \in DOMAIN to_log.of :
                          FEq(to_log.of[i].loss,
                              Comb(Frac(to_log.of[i].batch.class_loss, 1),
                                   Frac(to_log.of[i].batch.kd_loss, 1)))
                    /\ FEq(to_log.values.loss,
                           Comb(to_log.values.class_loss,
                                to_log.values.kd_loss))
                    /\ q = 0 => FEq(to_log.values.loss,
                                    to_log.values.class_loss)
                    /\ q = RatioDen => FEq(to_log.values.loss,
                                           to_log.values.kd_loss)
                    /\ \A i \in DOMAIN to_log.of :
                          /\ q = 0 => FEq(to_log.of[i].loss,
                                 Frac(to_log.of[i].batch.class_loss, 1))
                          /\ q = RatioDen => FEq(to_log.of[i].loss,
                                 Frac(to_log.of[i].batch.kd_loss, 1))

\* a step has been taken with kd_ratio = 0 on a window whose class loss
\* and kd loss differ
C17_Witness ==
    /\ cfg.recipe = "kd"
    /\ cfg.kd_ratio = 0
    /\ to_log.step > 0
    /\ ~FEq(to_log.values.class_loss, to_log.values.kd_loss)
    /\ \E i \in DOMAIN to_log.of :
          to_log.of[i].batch.class_loss # to_log.of[i].batch.kd_loss

\* the batch of the microbatch that ended the window of the optimizer step
\* just taken
LastBatch == to_log.of[Len(to_log.of)].batch

\* C18: concatenated_forward gives the first k of the 2k per-sequence
\* outputs as the chosen group and the last k as the rejected group, in
\* order, and the reward accuracy computed for logging is the mean of the
\* indicator chosen_reward > rejected_reward: 0.5 for chosen rewards [2, 1]
\* and rejected rewards [0, 3].
C18_PreferenceSplit ==
    (cfg.recipe = "dpo" /\ to_log.step > 0)
        => LET v == to_log.values
               k == Len(LastBatch.chosen_rewards)
               wins == {i \in 1..k : v.chosen_rewards[i]
                                         > v.rejected_rewards[i]}
           IN  /\ LastBatch.shape0 = 2 * k
               /\ v.chosen_logps = [i \in 1..k |-> i]
               /\ v.rejected_logps = [i \in 1..k |-> k + i]
               /\ FEq(v.accuracies, Frac(Cardinality(wins), k))
               /\ (v.chosen_rewards = <<2, 1>>
                     /\ v.rejected_rewards = <<0, 3>>)
                     => FEq(v.accuracies, Frac(1, 2))

\* an optimizer step has been taken on a batch of two pairs with chosen
\* rewards [2, 1] and rejected rewards [0, 3]
C18_Witness ==
    /\ cfg.recipe = "dpo"
    /\ to_log.step > 0
    /\ LastBatch.shape0 = 4
    /\ to_log.values.chosen_rewards = <<2, 1>>
    /\ to_log.values.rejected_rewards = <<0, 3>>

\* g is a whole multiple of n
MultipleOf(g, n) == \E q \in 0..g : g = q * n

\* C19 as stated: every call of the checkpoint sink, for every configured
\* save_every_n_steps, happens with global_step an exact multiple of
\* steps_per_epoch.
C19_OnlyAtEpochBoundaries ==
    \A k \in DOMAIN saved : MultipleOf(saved[k].g, steps_per_epoch)

\* C20 as stated: the TrainingProgress of every call of the sink holds the
\* recipe's seed, epochs_run, total_epochs, max_steps_per_epoch, global_step
\* and the dataloader's cursor as they are at the moment of the save.
C20_ProgressHoldsRecipeState ==
    \A k \in DOMAIN saved :
        /\ saved[k].seed = seed
        /\ saved[k].total_epochs = total_epochs
        /\ saved[k].max_steps = max_steps_per_epoch
        /\ saved[k].epochs_run = saved[k].self_epochs_run
        /\ saved[k].tp_steps_run = saved[k].g

\* C21 as stated: in both recipes, after setup the cadence is steps_per_epoch
\* when save_every_n_steps is not configured and the configured value
\* otherwise, and every checkpoint handed to the sink carries the prefix
\* 'epoch' respectively 'step'.
C21_CadenceAndPrefix ==
    /\ pc \in {"train", "for_epoch", "for_batch", "epoch_end", "done"}
          => save_every_n_steps = IF cfg.save_every = None
                                  THEN steps_per_epoch ELSE cfg.save_every
    /\ \A k \in DOMAIN saved :
          saved[k].prefix = IF cfg.save_every = None THEN "epoch" ELSE "step"

\* C22 as stated: in kd the loss whose gradient an optimizer step applies
\* (the sum of the losses passed to backward, scaled by 1 / num_tokens)
\* equals the loss computed for logging at that step.
C22_AppliedLossIsLoggedLoss ==
    (cfg.recipe = "kd" /\ to_log.step > 0)
        => FEq(to_log.applied, to_log.values.loss)

\* the position of call x in the calls of a step, 0 when it was not made
Pos(q, x) == IF \E i \in DOMAIN q : q[i] = x
             THEN CHOOSE i \in DOMAIN q : q[i] = x ELSE 0

\* call a, when made, was made before call b, which was made
Before(q, a, b) == Pos(q, b) > 0 /\ (Pos(q, a) > 0 => Pos(q, a) < Pos(q, b))

\* the step branch ran to its end: its checkpoint test did not raise
Completed(r) == ~(err = "ZeroDivisionError" /\ errAt = "train"
                  /\ r = steps[Len(steps)])

\* C23: at every optimizer step the calls are made in the order rescaling
\* (kd only), clipping (kd with clip_grad_norm only), optimizer.step,
\* zero_grad, lr_scheduler.step (skipped by dpo without a scheduler),
\* global_step += 1, log_dict (when the step is logged), checkpoint test,
\* reset of the running statistics; no call is made twice.
C23_StepOrder ==
    \A i \in DOMAIN steps :
        LET q == steps[i].order
            kd == cfg.recipe = "kd"
        IN  /\ \A j, k \in DOMAIN q : q[j] = q[k] => j = k
            /\ Pos(q, "scale_grads") > 0 <=> kd
            /\ Pos(q, "clip_grad_norm_") > 0 <=> (kd /\ cfg.clip_grad_norm)
            /\ Pos(q, "lr_scheduler.step") > 0 <=> (kd \/ cfg.lr_scheduler)
            /\ Pos(q, "log_dict") > 0 <=> steps[i].g % cfg.log_every = 0
            /\ Pos(q, "save_checkpoint") > 0 <=> steps[i].ckpt
            /\ Before(q, "scale_grads", "optimizer.step")
            /\ Before(q, "scale_grads", "clip_grad_norm_")
                  \/ Pos(q, "clip_grad_norm_") = 0
            /\ Before(q, "clip_grad_norm_", "optimizer.step")
            /\ Before(q, "optimizer.step", "zero_grad")
            /\ Before(q, "lr_scheduler.step", "global_step += 1")
            /\ Before(q, "zero_grad", "global_step += 1")
            /\ Pos(q, "lr_scheduler.step") > 0
                  => Pos(q, "zero_grad") < Pos(q, "lr_scheduler.step")
            /\ Before(q, "log_dict", "checkpoint test")
            /\ Before(q, "global_step += 1", "checkpoint test")
            /\ Pos(q, "log_dict") > 0
                  => Pos(q, "global_step += 1") < Pos(q, "log_dict")
            /\ Pos(q, "save_checkpoint") > 0
                  => Pos(q, "checkpoint test") < Pos(q, "save_checkpoint")
            /\ Completed(steps[i]) =>
                  /\ Before(q, "checkpoint test", "reset")
                  /\ Before(q, "save_checkpoint", "reset")
                  /\ q[Len(q)] = "reset"

\* a logged kd step with clipping that saved a checkpoint
C23_Witness ==
    /\ cfg.recipe = "kd"
    /\ cfg.clip_grad_norm
    /\ \E i \in DOMAIN steps :
          /\ steps[i].ckpt
          /\ steps[i].order =
                <<"scale_grads", "clip_grad_norm_", "optimizer.step",
                  "zero_grad", "lr_scheduler.step", "global_step += 1",
                  "log_dict", "checkpoint test", "save_checkpoint", "reset">>

\* the microbatches of epoch e this process ran forward/backward on
TrainedIn(e) ==
    {m \in UNION {{steps[i].mbs[j] : j \in DOMAIN steps[i].mbs} :
                    i \in DOMAIN steps}
            \cup {window[j] : j \in DOMAIN window} : m[1] = e}

\* the optimizer steps this process took in epoch e
StepsIn(e) == {i \in DOMAIN steps : steps[i].epoch = e}

\* the epochs whose microbatch loop this process has left
EpochsLeft ==
    {e \in 0..MaxEpochs + 1 :
        /\ curr_epoch # None
        /\ \/ e < curr_epoch /\ e \in {steps[i].epoch : i \in DOMAIN steps}
           \/ e = curr_epoch /\ pc \in {"epoch_end", "for_epoch", "done"}}

\* C24: under a step cap M with M * gradient_accumulation_steps <= len,
\* every epoch that started at the first microbatch of the data source took
\* exactly M optimizer steps and trained exactly the first
\* M * gradient_accumulation_steps microbatches, in both recipes.
C24_CapBoundsEpoch ==
    \A e \in EpochsLeft :
        (/\ max_steps_per_epoch # None
         /\ max_steps_per_epoch * cfg.accum <= cfg.len
         /\ <<e, 0>> \in TrainedIn(e))
            => /\ Cardinality(StepsIn(e)) = max_steps_per_epoch
               /\ TrainedIn(e) =
                     {<<e, j>> : j \in 0..max_steps_per_epoch * cfg.accum - 1}

\* a finished run of two capped epochs in which the cap cut the data source
\* short
C24_Witness ==
    /\ pc = "done"
    /\ max_steps_per_epoch # None
    /\ max_steps_per_epoch * cfg.accum < cfg.len
    /\ cfg.accum > 1
    /\ Cardinality(EpochsLeft) >= 2
    /\ \A e \in EpochsLeft :
          /\ <<e, 0>> \in TrainedIn(e)
          /\ Cardinality(StepsIn(e)) = max_steps_per_epoch

\* the first microbatch this process ran forward/backward on
FirstTrained == IF steps # <<>> THEN steps[1].mbs[1] ELSE window[1]

\* C25: setup drains the dataloader exactly when resume_from_checkpoint is
\* set and the reconciled global_step is a multiple of steps_per_epoch; the
\* drain is made once, before any microbatch is trained on, never by a
\* fresh run, and the first epoch trained after it starts at the first
\* microbatch of the data source.
C25_ResumeDrain ==
    /\ pc = "train"
          => /\ drained <=> (cfg.resume /\ global_step % steps_per_epoch = 0)
             /\ drained => (steps = <<>> /\ window = <<>> /\ dlFinished)
    /\ pc = "constructed" => ~drained
    /\ ~cfg.resume => ~drained
    /\ (drained /\ (steps # <<>> \/ window # <<>>))
          => FirstTrained[2] = 0

\* a resumed kd process that drained and then took an optimizer step
C25_Witness ==
    /\ cfg.recipe = "kd"
    /\ cfg.resume
    /\ drained
    /\ steps # <<>>
    /\ FirstTrained[2] = 0

\* C26: train() enters the epochs epochs_run, epochs_run + 1, ...,
\* total_epochs - 1 in increasing order, each once; on entry to epoch e the
\* sampler gets set_epoch(e) before a microbatch of the epoch is drawn;
\* epochs_run grows by exactly one when the microbatch loop of an epoch
\* exits, and train() ends after epoch total_epochs - 1.
C26_EpochOrder ==
    [][/\ (pc = "for_epoch" /\ pc' = "for_batch")
             => /\ curr_epoch' = epochs_run
                /\ curr_epoch # None => curr_epoch' = curr_epoch + 1
                /\ curr_epoch' < total_epochs
                /\ samplerEpoch' = curr_epoch'
                /\ idx' = 0
                /\ window' = window /\ steps' = steps
       /\ (pc = "for_batch" /\ window' # window /\ window' # <<>>)
             => window'[Len(window')][1] = curr_epoch
       /\ (pc \in {"for_batch", "epoch_end"} /\ pc' = "for_epoch")
             => /\ epochs_run' = epochs_run + 1
                /\ curr_epoch' = curr_epoch
       /\ (pc \in {"train", "for_epoch", "for_batch", "epoch_end"}
           /\ epochs_run' # epochs_run)
             => pc' = "for_epoch" /\ pc # "for_epoch" /\ pc # "train"
       /\ (pc = "for_epoch" /\ pc' = "done")
             => curr_epoch = total_epochs - 1 /\ epochs_run = total_epochs
      ]_vars

\* a resumed process that started at a later epoch than 0, trained in two
\* epochs and finished
C26_Witness ==
    /\ runs = 1
    /\ pc = "done"
    /\ steps # <<>>
    /\ steps[1].epoch > 0
    /\ Cardinality({steps[i].epoch : i \in DOMAIN steps}) >= 2
    /\ epochs_run = total_epochs

\* C27: every checkpoint saved from the step branch is handed to the sink
\* with full_tensors = False and the one saved after the epoch loop with
\* full_tensors = True; a completed run made exactly one save with
\* full_tensors = True, and it is the last call of the sink.
C27_FullTensorsOnlyLast ==
    /\ pc = "done"
          => /\ saved # <<>>
             /\ saved[Len(saved)].full
             /\ \A k \in DOMAIN saved : saved[k].full => k = Len(saved)
    /\ pc # "done" => \A k \in DOMAIN saved : ~saved[k].full

\* a completed run with intermediate checkpoints before the final one
C27_Witness ==
    /\ pc = "done"
    /\ Len(saved) >= 3
    /\ saved[Len(saved)].full
    /\ \A k \in 1..Len(saved) - 1 : ~saved[k].full

\* C28 as stated: a train() that starts with epochs_run < total_epochs (its
\* epoch loop has an iteration) does not end in an exception, and it is
\* done only after the final full checkpoint has been handed to the sink.
C28_TrainReachesDone ==
    /\ (pc = "error" /\ errAt = "train") => curr_epoch = None
    /\ pc = "done" => (saved # <<>> /\ saved[Len(saved)].full)

\* C29: right after an optimizer step the running loss sums and the token
\* count of train() are zero in both recipes, whether or not the step saved
\* a checkpoint and whether or not it logged metrics.
C29_WindowStateReset ==
    to_log.step > 0
        => /\ stats.num_tokens = 0
           /\ stats.running_class_loss = 0
           /\ stats.running_kd_loss = 0
           /\ stats.running_loss[1] = 0
           /\ fed = <<>>

\* a dpo step over a window of several microbatches that saved a checkpoint
\* and logged nothing
C29_Witness ==
    /\ cfg.recipe = "dpo"
    /\ to_log.step > 0
    /\ to_log.num_tokens > 2
    /\ ~to_log.logged
    /\ steps[Len(steps)].ckpt
    /\ stats.num_tokens = 0

\* _update_recipe_state ran to its end: a resume on a checkpoint with
\* adapter weights and every key the recipe reads
StateUpdated ==
    /\ cfg.resume
    /\ pc # "constructed"
    /\ loaded.adapter
    /\ \A i \in DOMAIN (IF cfg.recipe = "kd" THEN ReadOrderKD
                        ELSE ReadOrderDPO) :
          (IF cfg.recipe = "kd" THEN ReadOrderKD ELSE ReadOrderDPO)[i]
              \in loaded.keys

\* a warning is emitted for exactly the fields whose config value differs
\* from the checkpoint value
WarningsExact ==
    /\ "seed" \in warnings <=> cfg.seed # loaded.seed
    /\ "max_steps_per_epoch" \in warnings <=> cfg.max_steps # loaded.max_steps
    /\ "total_epochs" \in warnings <=> cfg.epochs # loaded.total_epochs
    /\ warnings \subseteq {"seed", "max_steps_per_epoch", "total_epochs"}

\* C30 as stated: on a resume, _update_recipe_state warns about seed,
\* max_steps_per_epoch and total_epochs each exactly when the config value
\* differs from the checkpoint value, a fresh run warns about nothing, and
\* after any combination of mismatches setup continues to training.
C30_MismatchWarnings ==
    /\ ~cfg.resume => warnings = {}
    /\ StateUpdated
          => /\ WarningsExact
             /\ ~(pc = "error" /\ errAt = "setup")

\* C31 as stated: a dpo recipe constructed with enable_activation_offloading
\* raises RuntimeError when the device is neither CUDA nor XPU, and
\* otherwise raises RuntimeError when enable_activation_checkpointing is
\* false; without offloading no RuntimeError is raised.
C31_OffloadingErrors ==
    (cfg.recipe = "dpo" /\ runs = 0)
        => /\ (cfg.enable_activation_offloading
               /\ cfg.device \notin {"cuda", "xpu"})
                 => (errAt = "init"
                     /\ err = "RuntimeError: offloading needs CUDA or XPU")
           /\ (cfg.enable_activation_offloading
               /\ cfg.device \in {"cuda", "xpu"}
               /\ ~cfg.enable_activation_checkpointing)
                 => (errAt = "init"
                     /\ err = "RuntimeError: offloading needs activation checkpointing")
           /\ ~cfg.enable_activation_offloading
                 => err \notin {"RuntimeError: offloading needs CUDA or XPU",
                                "RuntimeError: offloading needs activation checkpointing"}

\* C31 amended: the same, for a dtype other than fp16; with fp16 the
\* constructor raises ValueError before it looks at the activation flags.
C31_OffloadingErrorsAfterDtype ==
    (cfg.recipe = "dpo" /\ runs = 0)
        => /\ (cfg.enable_activation_offloading /\ cfg.dtype # "fp16"
               /\ cfg.device \notin {"cuda", "xpu"})
                 => (errAt = "init" /\ pc = "error"
                     /\ err = "RuntimeError: offloading needs CUDA or XPU")
           /\ (cfg.enable_activation_offloading /\ cfg.dtype # "fp16"
               /\ cfg.device \in {"cuda", "xpu"}
               /\ ~cfg.enable_activation_checkpointing)
                 => (errAt = "init" /\ pc = "error"
                     /\ err = "RuntimeError: offloading needs activation checkpointing")
           /\ (cfg.enable_activation_offloading /\ cfg.dtype # "fp16"
               /\ cfg.device \in {"cuda", "xpu"}
               /\ cfg.enable_activation_checkpointing)
                 => errAt # "init"
           /\ ~cfg.enable_activation_offloading
                 => err \notin {"RuntimeError: offloading needs CUDA or XPU",
                                "RuntimeError: offloading needs activation checkpointing"}
           /\ cfg.dtype = "fp16"
                 => (errAt = "init"
                     /\ err = "ValueError: fp16 precision is not supported")

\* a dpo recipe with offloading on a cpu device whose construction raised,
\* and nothing was set up
C31_Witness ==
    /\ cfg.recipe = "dpo"
    /\ cfg.enable_activation_offloading
    /\ cfg.enable_activation_checkpointing
    /\ cfg.device = "cpu"
    /\ cfg.dtype = "bf16"
    /\ pc = "error"
    /\ err = "RuntimeError: offloading needs CUDA or XPU"
    /\ steps_per_epoch = None

\* the calls of the loop body made on microbatch i of the current window
CallsOf(i) == fed[i].calls

\* C32: for every microbatch dpo trains on, the policy forward pass runs
\* first with adapters enabled, then the reference forward pass on the same
\* batch with adapters disabled and gradient tracking off, then the loss and
\* backward() with adapters enabled; the optimizer step runs with adapters
\* enabled.
C32_ReferencePassOrder ==
    cfg.recipe = "dpo"
        => /\ \A i \in DOMAIN fed :
                LET q == CallsOf(i)
                IN  /\ Len(q) = 4
                    /\ q[1].call = "policy forward"
                    /\ q[1].adapters /\ q[1].grad
                    /\ q[2].call = "reference forward"
                    /\ ~q[2].adapters /\ ~q[2].grad
                    /\ q[2].input = q[1].input
                    /\ q[1].input = fed[i].batch
                    /\ q[3].call = "loss_fn" /\ q[3].adapters
                    /\ q[4].call = "backward"
                    /\ q[4].adapters /\ q[4].grad
           /\ to_log.step > 0
                => /\ to_log.adapters
                   /\ \A i \in DOMAIN to_log.of :
                         LET q == to_log.of[i].calls
                         IN  /\ q[1].call = "policy forward" /\ q[1].adapters
                             /\ q[2].call = "reference forward"
                             /\ ~q[2].adapters /\ ~q[2].grad
                             /\ q[2].input = q[1].input
                             /\ q[4].call = "backward" /\ q[4].adapters

\* a dpo optimizer step over a window of two microbatches
C32_Witness ==
    /\ cfg.recipe = "dpo"
    /\ to_log.step > 0
    /\ Len(to_log.of) = 2
    /\ to_log.adapters
    /\ ~to_log.of[1].calls[2].adapters

\* the losses (loss.mean() of each microbatch) and token counts behind the
\* values computed for logging at the current step
LossesOf(w) == [i \in DOMAIN w |-> w[i].batch.loss]
NumelOf(w) == [i \in DOMAIN w |-> w[i].batch.numel]
WeightedLossesOf(w) == [i \in DOMAIN w |-> w[i].batch.loss * w[i].batch.numel]

C34_NoDivisionByZero ==
    (cfg.len >= 1 /\ cfg.accum >= 1) => err # "ZeroDivisionError"

\* the token count of the microbatches behind the values computed for
\* logging at the current step
WindowTokens ==
    Sum([i \in DOMAIN to_log.of |->
            IF cfg.recipe = "kd" THEN to_log.of[i].batch.tokens
            ELSE to_log.of[i].batch.numel])

\* C35: log_dict is called at an optimizer step exactly when the incremented
\* global_step is a multiple of log_every_n_steps, with step = global_step;
\* its loss and token statistics are those of the microbatches trained
\* since the previous optimizer step, logged or not.
C35_LoggedIffMultiple ==
    /\ \A i \in DOMAIN steps :
          (steps[i].g % cfg.log_every = 0)
              <=> \E j \in DOMAIN metrics : metrics[j] = steps[i].g
    /\ \A j \in DOMAIN metrics :
          /\ metrics[j] % cfg.log_every = 0
          /\ \E i \in DOMAIN steps : steps[i].g = metrics[j]
          /\ \A k \in DOMAIN metrics : k < j => metrics[k] < metrics[j]
    /\ to_log.step > 0
          => /\ to_log.step = global_step
             /\ to_log.logged <=> global_step % cfg.log_every = 0
             /\ to_log.logged
                   => (metrics # <<>> /\ metrics[Len(metrics)] = global_step)
             /\ Len(to_log.of) = Len(steps[Len(steps)].mbs)
             /\ to_log.num_tokens = WindowTokens
             /\ cfg.recipe = "kd"
                   => FEq(to_log.values.class_loss,
                          Frac(ClassLossOf(LastWindow), WindowTokens))
             /\ cfg.recipe = "dpo"
                   => FEq(to_log.values.loss,
                          Frac(Sum([i \in DOMAIN to_log.of |->
                                       to_log.of[i].batch.loss]), cfg.accum))

\* with log_every_n_steps = 2 the second step is logged after a first step
\* that was not, over a window of two microbatches
C35_Witness ==
    /\ cfg.log_every = 2
    /\ cfg.accum = 2
    /\ to_log.step = 2
    /\ to_log.logged
    /\ metrics = <<2>>
    /\ Len(steps) = 2
    /\ to_log.num_tokens = WindowTokens

\* C36: in a fresh run of either recipe the scheduler is given
\* total_epochs * steps_per_epoch training steps; epochs_run never exceeds
\* total_epochs and global_step never exceeds that number, and when train()
\* has finished epochs_run = total_epochs and global_step equals it.
C36_RunEndsAtSchedule ==
    (runs = 0 /\ pc \in {"train", "for_epoch", "for_batch", "epoch_end",
                         "done"})
        => /\ num_training_steps = cfg.epochs * steps_per_epoch
           /\ total_epochs = cfg.epochs
           /\ epochs_run <= total_epochs
           /\ global_step <= num_training_steps
           /\ global_step = optSteps
           /\ pc = "done"
                 => /\ epochs_run = total_epochs
                    /\ global_step = num_training_steps

\* a finished fresh run of several epochs with several steps each, under a
\* step cap
C36_Witness ==
    /\ runs = 0
    /\ pc = "done"
    /\ total_epochs >= 2
    /\ steps_per_epoch >= 2
    /\ max_steps_per_epoch = steps_per_epoch
    /\ cfg.len > cfg.accum * steps_per_epoch
    /\ global_step = num_training_steps
    /\ epochs_run = total_epochs

\* C37: a run with total_epochs = 1 hands no intermediate checkpoint to the
\* sink, whatever save_every_n_steps is: the sink is not called before
\* train() has finished, and then once, with the final full checkpoint.
C37_SingleEpochNoIntermediate ==
    total_epochs = 1
        => /\ pc # "done" => saved = <<>>
           /\ pc = "done" => (Len(saved) = 1 /\ saved[1].full)

\* a finished single-epoch run that took several optimizer steps at cadence
\* points of a configured save_every_n_steps
C37_Witness ==
    /\ total_epochs = 1
    /\ runs = 0
    /\ pc = "done"
    /\ cfg.save_every = 1
    /\ Len(steps) >= 2
    /\ Len(saved) = 1
    /\ saved[1].full

\* C38 as stated: when _update_recipe_state raises because a key is missing
\* from the checkpoint, epochs_run, global_step, seed and
\* max_steps_per_epoch still have the values __init__ gave them.
C38_UpdateAllOrNothing ==
    (pc = "error" /\ errAt = "setup" /\ err = "KeyError: required keys")
        => /\ epochs_run = 0
           /\ global_step = 0
           /\ seed = cfg.seed
           /\ max_steps_per_epoch = cfg.max_steps

\* C39: without resume_from_checkpoint setup() takes no recipe state from
\* the loaded checkpoint dict: seed, max_steps_per_epoch and total_epochs
\* keep their config values whatever the dict holds, epochs_run and
\* global_step are 0 when setup returns, no warning is emitted, a dict
\* without adapter weights or recipe keys is no error, and the dataloader
\* is not drained.
C39_NoResumeNoRecipeState ==
    (~cfg.resume /\ pc # "constructed" /\ errAt # "init")
        => /\ seed = cfg.seed
           /\ max_steps_per_epoch = cfg.max_steps
           /\ total_epochs = cfg.epochs
           /\ warnings = {}
           /\ ~drained
           /\ err \notin {"ValueError: adapter weights not found",
                          "KeyError: required keys"}
           /\ pc = "train" => (epochs_run = 0 /\ global_step = 0)
           /\ pc \in {"for_epoch", "for_batch", "epoch_end", "done"}
                 => global_step = optSteps

\* a non-resuming process on a recipe checkpoint whose seed, step cap,
\* epoch count and progress all differ from the config, after setup
C39_Witness ==
    /\ ~cfg.resume
    /\ runs = 1
    /\ pc = "train"
    /\ loaded.adapter
    /\ loaded.seed # cfg.seed
    /\ loaded.max_steps # cfg.max_steps
    /\ loaded.total_epochs # cfg.epochs
    /\ loaded.epochs_run > 0
    /\ loaded.steps_run > 0
    /\ epochs_run = 0
    /\ global_step = 0
    /\ seed = cfg.seed

\* the pairs of a batch whose chosen reward exceeds the rejected reward
Preferred(b) ==
    {i \in DOMAIN b.chosen_rewards : b.chosen_rewards[i] > b.rejected_rewards[i]}

\* C40: the reward metrics dpo computes for logging at an optimizer step
\* are those of the last microbatch of the window, whatever the earlier
\* microbatches were, while the logged loss is the sum of
\* loss_i / gradient_accumulation_steps over all microbatches of the window.
C40_RewardsOfLastMicrobatch ==
    (cfg.recipe = "dpo" /\ to_log.step > 0)
        => /\ to_log.values.chosen_rewards = LastBatch.chosen_rewards
           /\ to_log.values.rejected_rewards = LastBatch.rejected_rewards
           /\ FEq(to_log.values.accuracies,
                  Frac(Cardinality(Preferred(LastBatch)),
                       Len(LastBatch.chosen_rewards)))
           /\ Len(to_log.values.chosen_logps) = LastBatch.shape0 \div 2
           /\ FEq(to_log.values.loss,
                  SumFrac([i \in DOMAIN to_log.of |->
                              Frac(to_log.of[i].batch.loss, cfg.accum)]))

\* a step over two microbatches: the first prefers the chosen answer and
\* has loss 1, the last prefers the rejected one and has loss 0; accuracy 0
\* and loss 1/2 are logged
C40_Witness ==
    /\ cfg.recipe = "dpo"
    /\ cfg.accum = 2
    /\ to_log.step > 0
    /\ Len(to_log.of) = 2
    /\ Preferred(to_log.of[1].batch) # {}
    /\ Preferred(LastBatch) = {}
    /\ to_log.of[1].batch.loss = 1
    /\ LastBatch.loss = 0
    /\ to_log.values.accuracies[1] = 0
    /\ FEq(to_log.values.loss, Frac(1, 2))

====
